---- MODULE Spec2Model ----
(***************************************************************************)
(* A model of cmd/wrserver/main.go: the Web Risk proxy server.             *)
(*                                                                         *)
(*  - the codec (unmarshal / marshal) and the three handlers               *)
(*    (serveLookups, serveRedirector, serveStatus), each running on a      *)
(*    connection of the HTTP server;                                       *)
(*  - the lifecycle (runServer / main): the goroutine that waits for a     *)
(*    termination signal and calls Shutdown, the goroutine that runs       *)
(*    ListenAndServe and closes `down`, and main, which waits on `down`.   *)
(*                                                                         *)
(* Strings that the code inspects character by character (the url query    *)
(* parameter) are sequences of one-character strings.                      *)
(***************************************************************************)
EXTENDS Integers, Sequences, FiniteSets, TLC

(***************************************************************************)
(* Bounds of the model.                                                    *)
(***************************************************************************)
\* longest list of matches the engine returns for one URL
MaxMatches == 3
\* longest url query parameter, in characters
MaxURLLen == 3
\* connections served concurrently in the lifecycle specification
MaxConns == 1
\* termination signals the environment delivers
MaxSignals == 2

(***************************************************************************)
(* Program constants.                                                      *)
(***************************************************************************)
statusPath == "/status"
findThreatPath == "/v1/uris:search"
redirectPath == "/r"

mimeJSON == "application/json"
mimeProto == "application/x-protobuf"

\* net/http status codes the handlers use
StatusOK == 200
StatusFound == 302
StatusBadRequest == 400
StatusNotFound == 404
StatusInternalServerError == 500

\* context.WithTimeout(context.Background(), 5*time.Second)
ShutdownTimeout == 5

\* webrisk.ThreatType values (the enum numbers of the Web Risk API)
ThreatTypeUnspecified == 0
ThreatTypeMalware == 1
ThreatTypeSocialEngineering == 2
ThreatTypeUnwantedSoftware == 3
ThreatTypeSocialEngineeringExtended == 4

ThreatTypes ==
  { ThreatTypeUnspecified, ThreatTypeMalware, ThreatTypeSocialEngineering,
    ThreatTypeUnwantedSoftware, ThreatTypeSocialEngineeringExtended }

\* var threatTemplate = map[webrisk.ThreatType]string{...}: the keys ...
threatTemplateKeys ==
  { ThreatTypeMalware, ThreatTypeUnwantedSoftware,
    ThreatTypeSocialEngineering, ThreatTypeSocialEngineeringExtended }

\* ... and the value of a key
threatTemplate(tt) ==
  CASE tt = ThreatTypeMalware -> "/malware.tmpl"
    [] tt = ThreatTypeUnwantedSoftware -> "/unwanted.tmpl"
    [] tt = ThreatTypeSocialEngineering -> "/social_engineering.tmpl"
    [] tt = ThreatTypeSocialEngineeringExtended -> "/social_engineering.tmpl"
    [] OTHER -> ""

(***************************************************************************)
(* Sequences.                                                              *)
(***************************************************************************)
Range(s) == { s[i] : i \in 1..Len(s) }

SeqsUpTo(S, n) == UNION { [1..k -> S] : k \in 0..n }

HasPrefix(s, p) == Len(s) >= Len(p) /\ SubSeq(s, 1, Len(p)) = p

HasSuffix(s, p) == Len(s) >= Len(p) /\ SubSeq(s, Len(s) - Len(p) + 1, Len(s)) = p

\* strings.Index(s, ch) for one character, 1-based; 0 when absent
IndexOf(s, ch) ==
  IF \E i \in 1..Len(s) : s[i] = ch
  THEN CHOOSE i \in 1..Len(s) : s[i] = ch /\ \A j \in 1..(i - 1) : s[j] # ch
  ELSE 0

\* strings.LastIndex(s, ch) for one character, 1-based; 0 when absent
LastIndexOf(s, ch) ==
  IF \E i \in 1..Len(s) : s[i] = ch
  THEN CHOOSE i \in 1..Len(s) : s[i] = ch /\ \A j \in (i + 1)..Len(s) : s[j] # ch
  ELSE 0

(***************************************************************************)
(* The http.ResponseWriter of one request.                                 *)
(*   hdrCT, hdrLoc  the header map (Content-Type, Location)                *)
(*   status         the status line sent; 0 while no header is sent        *)
(*   wireCT,wireLoc the headers as sent with the status line               *)
(*   body           the chunks written after the header                    *)
(*   implicit       the server sent the header because the handler         *)
(*                  returned without writing anything                      *)
(***************************************************************************)
NoChunk == [kind |-> "none", types |-> <<>>, full |-> TRUE, text |-> ""]

NewResponse ==
  [ hdrCT |-> "", hdrLoc |-> <<>>, status |-> 0, wireCT |-> "", wireLoc |-> <<>>,
    body |-> <<>>, implicit |-> FALSE ]

\* http.DetectContentType, for the chunks the handlers write with no
\* Content-Type set
DetectContentType(chunk) ==
  IF chunk.kind = "html" THEN "text/html; charset=utf-8"
  ELSE "text/plain; charset=utf-8"

HeaderSet(rw, ct) == [rw EXCEPT !.hdrCT = ct]

\* ResponseWriter.WriteHeader: the first call sends the header map; a later
\* call is superfluous and changes nothing on the wire.
WriteHeader(rw, code) ==
  IF rw.status # 0 THEN rw
  ELSE [rw EXCEPT !.status = code, !.wireCT = rw.hdrCT, !.wireLoc = rw.hdrLoc]

\* ResponseWriter.Write: sends the header with 200 if none was sent (sniffing
\* the Content-Type when the header map has none), then the chunk.
Write(rw, chunk) ==
  LET h == IF rw.status # 0 THEN rw
           ELSE WriteHeader(
                  IF rw.hdrCT = "" THEN HeaderSet(rw, DetectContentType(chunk)) ELSE rw,
                  StatusOK)
  IN  [h EXCEPT !.body = Append(@, chunk)]

\* http.Error: Content-Type text/plain, the status, the message as body.
HttpError(rw, msg, code) ==
  Write(WriteHeader(HeaderSet(rw, "text/plain; charset=utf-8"), code),
        [NoChunk EXCEPT !.kind = "text", !.text = msg])

\* What the server does when a handler returns: a handler that wrote nothing
\* gets an implicit 200 with an empty body.
FinishRequest(rw) ==
  IF rw.status # 0 THEN rw
  ELSE [WriteHeader(rw, StatusOK) EXCEPT !.implicit = TRUE]

(***************************************************************************)
(* Request bodies of the lookup endpoint.                                  *)
(*   enc       what the bytes are: a JSON document, a protobuf encoding,   *)
(*             no bytes at all, or neither                                 *)
(*   uri       the uri field the document carries                          *)
(*   readable  whether reading the body succeeds (ioutil.ReadAll)          *)
(***************************************************************************)
SomeURI == <<"a">>

Bodies ==
  { [enc |-> e, uri |-> IF e \in {"json", "proto"} THEN SomeURI ELSE <<>>, readable |-> r] :
      e \in {"json", "proto", "empty", "garbage"}, r \in BOOLEAN }

\* protojson.Unmarshal: only a JSON document parses (empty input is an error)
protojsonUnmarshal(body) ==
  IF body.enc = "json" THEN [err |-> "", uri |-> body.uri]
  ELSE [err |-> "proto: syntax error", uri |-> <<>>]

\* proto.Unmarshal: a protobuf encoding parses, and so do zero bytes (the
\* empty message)
protoUnmarshal(body) ==
  CASE body.enc = "proto" -> [err |-> "", uri |-> body.uri]
    [] body.enc = "empty" -> [err |-> "", uri |-> <<>>]
    [] OTHER -> [err |-> "proto: cannot parse invalid wire-format data", uri |-> <<>>]

\* unmarshal with the selectors in the wrong order: the Content-Type header
\* is looked at first and alt only when there is none
unmarshal_mime_HeaderFirst(alt, contentType) ==
  LET a == IF contentType = "" THEN alt ELSE contentType
  IN  CASE a \in {"json", mimeJSON} -> mimeJSON
        [] a \in {"proto", mimeProto} -> mimeProto
        [] OTHER -> ""

\* unmarshal falling back to the Content-Type header when alt names no format
unmarshal_mime_HeaderFallback(alt, contentType) ==
  LET named(a) == CASE a \in {"json", mimeJSON} -> mimeJSON
                    [] a \in {"proto", mimeProto} -> mimeProto
                    [] OTHER -> ""
  IN  IF named(alt) # "" THEN named(alt) ELSE named(contentType)

\* func unmarshal(req, pbReq) (string, error).
\*   parsed is the format the body was parsed in ("" when it was not parsed)
unmarshal_mime(alt, contentType) ==
  LET a == IF alt = "" THEN contentType ELSE alt
  IN  CASE a \in {"json", mimeJSON} -> mimeJSON
        [] a \in {"proto", mimeProto} -> mimeProto
        [] OTHER -> ""

\* unmarshal with the errors of reading and parsing the body dropped
unmarshal_body_ErrorsDropped(contentType, body) ==
  CASE contentType = mimeJSON ->
         [err |-> "", uri |-> protojsonUnmarshal(body).uri, parsed |-> mimeJSON]
    [] contentType = mimeProto ->
         [err |-> "", uri |-> protoUnmarshal(body).uri, parsed |-> mimeProto]
    [] OTHER -> [err |-> "", uri |-> <<>>, parsed |-> ""]

unmarshal_body(contentType, body) ==
  CASE contentType = mimeJSON ->
         IF ~body.readable THEN [err |-> "read error", uri |-> <<>>, parsed |-> ""]
         ELSE LET r == protojsonUnmarshal(body)
              IN  [err |-> r.err, uri |-> r.uri,
                   parsed |-> IF r.err = "" THEN mimeJSON ELSE ""]
    [] contentType = mimeProto ->
         IF ~body.readable THEN [err |-> "read error", uri |-> <<>>, parsed |-> ""]
         ELSE LET r == protoUnmarshal(body)
              IN  [err |-> r.err, uri |-> r.uri,
                   parsed |-> IF r.err = "" THEN mimeProto ELSE ""]
    [] OTHER -> [err |-> "", uri |-> <<>>, parsed |-> ""]

unmarshal(alt, contentType, body) ==
  LET mime == unmarshal_mime(alt, contentType)
  IN  IF mime = ""
      THEN [mime |-> mime, err |-> "invalid interchange format", uri |-> <<>>, parsed |-> ""]
      ELSE LET b == unmarshal_body(contentType, body)
           IN  [mime |-> mime, err |-> b.err, uri |-> b.uri, parsed |-> b.parsed]

\* marshal with the Content-Type header always set to JSON
marshal_HeaderAlwaysJSON(rw, types, mime, serOK, wr) ==
  LET h == HeaderSet(rw, mimeJSON)
      enc == CASE mime = mimeProto -> "proto" [] mime = mimeJSON -> "json" [] OTHER -> ""
      chunk == [NoChunk EXCEPT !.kind = enc, !.types = types, !.full = (wr = "ok")]
  IN  CASE enc = "" -> [rw |-> h, err |-> "invalid interchange format"]
        [] ~serOK -> [rw |-> h, err |-> "marshal error"]
        [] wr = "ok" -> [rw |-> Write(h, chunk), err |-> ""]
        [] wr = "partial" -> [rw |-> Write(h, chunk), err |-> "write error"]
        [] OTHER -> [rw |-> WriteHeader(h, StatusOK), err |-> "write error"]

\* func marshal(resp, pbResp, mime) error, as a pair of the writer and the
\* error.  serOK: the serializer succeeds; wr: how resp.Write ends ("ok", or
\* an error after "partial" or "none" of the bytes went out).
marshal(rw, types, mime, serOK, wr) ==
  LET h == HeaderSet(rw, mime)
      enc == CASE mime = mimeProto -> "proto" [] mime = mimeJSON -> "json" [] OTHER -> ""
      chunk == [NoChunk EXCEPT !.kind = enc, !.types = types, !.full = (wr = "ok")]
  IN  CASE enc = "" -> [rw |-> h, err |-> "invalid interchange format"]
        [] ~serOK -> [rw |-> h, err |-> "marshal error"]
        [] wr = "ok" -> [rw |-> Write(h, chunk), err |-> ""]
        [] wr = "partial" -> [rw |-> Write(h, chunk), err |-> "write error"]
        [] OTHER -> [rw |-> WriteHeader(h, StatusOK), err |-> "write error"]

(***************************************************************************)
(* The lookup aggregator.                                                  *)
(***************************************************************************)
\* pb.ThreatType(td): uint16 to int32, which keeps the value
pbThreatType(td) == td

\* All orders in which `range tdm` can visit the keys of the map.
Orderings(S) ==
  { f \in [1..Cardinality(S) -> S] : \A i, j \in 1..Cardinality(S) : f[i] = f[j] => i = j }

\* the loops without the map: every match appends its threat type
tdmAppends_NoCondense(uts) ==
  { [i \in 1..Len(uts) |-> pbThreatType(uts[i])] }

\* The inner loops of serveLookups for one match list: the map tdm condenses
\* the threat types, and ranging over it appends each key once, in any order.
tdmAppends(uts) ==
  { [i \in 1..Len(o) |-> pbThreatType(o[i])] : o \in Orderings(Range(uts)) }

\* The outer loop: the lists of the match lists, concatenated.
RECURSIVE composeThreatTypes(_)
composeThreatTypes(utss) ==
  IF utss = <<>> THEN { <<>> }
  ELSE { a \o b : a \in tdmAppends(Head(utss)), b \in composeThreatTypes(Tail(utss)) }

(***************************************************************************)
(* net/url.Parse, for strings over letters, digits, ':' and '/'.           *)
(***************************************************************************)
Letters == {"a"}
Digits == {"1"}
URLChars == Letters \cup Digits \cup {":", "/"}

\* getScheme: the scheme is the run of letters and digits before the first
\* ':'; a ':' in first place is an error; a digit in first place, or any
\* other character before a ':', means there is no scheme.
RECURSIVE getSchemeAt(_, _)
getSchemeAt(s, i) ==
  IF i > Len(s) THEN [scheme |-> <<>>, rest |-> s, err |-> ""]
  ELSE CASE s[i] \in Letters -> getSchemeAt(s, i + 1)
         [] s[i] \in Digits ->
              IF i = 1 THEN [scheme |-> <<>>, rest |-> s, err |-> ""]
              ELSE getSchemeAt(s, i + 1)
         [] s[i] = ":" ->
              IF i = 1 THEN [scheme |-> <<>>, rest |-> <<>>, err |-> "missing protocol scheme"]
              ELSE [scheme |-> SubSeq(s, 1, i - 1), rest |-> SubSeq(s, i + 1, Len(s)), err |-> ""]
         [] OTHER -> [scheme |-> <<>>, rest |-> s, err |-> ""]

getScheme(rawURL) == getSchemeAt(rawURL, 1)

\* validOptionalPort: "" or ':' followed by digits only
validOptionalPort(port) ==
  \/ port = <<>>
  \/ /\ port[1] = ":"
     /\ \A i \in 2..Len(port) : port[i] \in Digits

\* parseHost: what follows the last ':' of the authority must be a port
parseHost(host) ==
  LET colon == LastIndexOf(host, ":")
  IN  IF colon # 0 /\ ~validOptionalPort(SubSeq(host, colon, Len(host)))
      THEN [host |-> <<>>, err |-> "invalid port after host"]
      ELSE [host |-> host, err |-> ""]

\* url.Parse(rawURL): err is "" on success
urlParse(rawURL) ==
  LET g == getScheme(rawURL)
      rest == g.rest
      slash == IndexOf(rest, "/")
      segment == IF slash = 0 THEN rest ELSE SubSeq(rest, 1, slash - 1)
      afterSlashes == SubSeq(rest, 3, Len(rest))
      authEnd == IndexOf(afterSlashes, "/")
      authority == IF authEnd = 0 THEN afterSlashes ELSE SubSeq(afterSlashes, 1, authEnd - 1)
      h == parseHost(authority)
      none == [scheme |-> <<>>, host |-> <<>>, opaque |-> <<>>, err |-> ""]
  IN  CASE g.err # "" -> [none EXCEPT !.err = g.err]
        [] ~HasPrefix(rest, <<"/">>) /\ g.scheme # <<>> ->
             [none EXCEPT !.scheme = g.scheme, !.opaque = rest]
        [] ~HasPrefix(rest, <<"/">>) /\ g.scheme = <<>> /\ IndexOf(segment, ":") # 0 ->
             [none EXCEPT !.err = "first path segment in URL cannot contain colon"]
        [] /\ (g.scheme # <<>> \/ ~HasPrefix(rest, <<"/", "/", "/">>))
           /\ HasPrefix(rest, <<"/", "/">>) ->
             IF h.err # "" THEN [none EXCEPT !.err = h.err]
             ELSE [none EXCEPT !.scheme = g.scheme, !.host = h.host]
        [] OTHER -> [none EXCEPT !.scheme = g.scheme]

(***************************************************************************)
(* http.Redirect.                                                          *)
(***************************************************************************)
\* path.Clean of a rooted path without dots: runs of '/' collapse and a
\* trailing '/' goes, except for the root itself.
RECURSIVE collapseSlashes(_)
collapseSlashes(p) ==
  IF Len(p) < 2 THEN p
  ELSE IF p[1] = "/" /\ p[2] = "/" THEN collapseSlashes(Tail(p))
       ELSE <<p[1]>> \o collapseSlashes(Tail(p))

pathClean(p) ==
  LET c == collapseSlashes(p)
  IN  IF Len(c) > 1 /\ c[Len(c)] = "/" THEN SubSeq(c, 1, Len(c) - 1) ELSE c

\* The Location http.Redirect sends for `url` on a request to /r: a url with
\* neither scheme nor host is made absolute against the request path's
\* directory ("/") and cleaned, keeping a trailing '/'.
redirectLocation(url) ==
  LET u == urlParse(url)
      olddir == <<"/">>
      abs == IF url = <<>> \/ url[1] # "/" THEN olddir \o url ELSE url
      trailing == HasSuffix(abs, <<"/">>)
      cleaned == pathClean(abs)
  IN  IF u.err = "" /\ u.scheme = <<>> /\ u.host = <<>>
      THEN IF trailing /\ ~HasSuffix(cleaned, <<"/">>) THEN cleaned \o <<"/">> ELSE cleaned
      ELSE url

\* http.Redirect(resp, req, url, code): Location, a Content-Type and a short
\* HTML body for GET, the status.
httpRedirect(rw, method, url, code) ==
  LET hadCT == rw.hdrCT # ""
      h1 == [rw EXCEPT !.hdrLoc = redirectLocation(url)]
      h2 == IF ~hadCT /\ method \in {"GET", "HEAD"}
            THEN HeaderSet(h1, "text/html; charset=utf-8") ELSE h1
      h3 == WriteHeader(h2, code)
  IN  IF ~hadCT /\ method = "GET"
      THEN Write(h3, [NoChunk EXCEPT !.kind = "html", !.text = "Found"])
      ELSE h3

\* a permanent redirect (301) in place of the temporary one
safeRedirect_Permanent(rw, method, rawURL) ==
  httpRedirect(rw, method, rawURL, StatusFound - 1)

\* http.Redirect(resp, req, rawURL, http.StatusFound): the answer of
\* serveRedirector for a URL without matches
safeRedirect(rw, method, rawURL) ==
  httpRedirect(rw, method, rawURL, StatusFound)

(***************************************************************************)
(* The interstitial templates.                                             *)
(***************************************************************************)
TemplateFiles ==
  {"/malware.tmpl", "/unwanted.tmpl", "/social_engineering.tmpl", "/interstitial.html"}

\* func parseTemplates(fs, t, paths...): the paths loaded, and the error of
\* the first path the file system cannot open.
RECURSIVE parseTemplates(_, _, _)
parseTemplates(fs, t, paths) ==
  IF paths = <<>> THEN [t |-> t, err |-> ""]
  ELSE IF Head(paths) \notin fs THEN [t |-> t, err |-> "file does not exist"]
       ELSE parseTemplates(fs, Append(t, Head(paths)), Tail(paths))

\* the loop without the check that the threat type has a template: the first
\* match is taken
firstTemplated_NoOkCheck(threats) ==
  IF threats # <<>> THEN 1 ELSE 0

\* the loop without its return: the last match with a template wins
firstTemplated_Last(threats) ==
  IF \E i \in 1..Len(threats) : threats[i] \in threatTemplateKeys
  THEN CHOOSE i \in 1..Len(threats) :
         /\ threats[i] \in threatTemplateKeys
         /\ \A j \in (i + 1)..Len(threats) : threats[j] \notin threatTemplateKeys
  ELSE 0

\* The loop of serveRedirector over threats[0]: the index of the first match
\* whose threat type is a key of threatTemplate; 0 when there is none.
firstTemplated(threats) ==
  IF \E i \in 1..Len(threats) : threats[i] \in threatTemplateKeys
  THEN CHOOSE i \in 1..Len(threats) :
         /\ threats[i] \in threatTemplateKeys
         /\ \A j \in 1..(i - 1) : threats[j] \notin threatTemplateKeys
  ELSE 0

(***************************************************************************)
(* State.                                                                  *)
(*                                                                         *)
(* Per connection c of the server:                                         *)
(*   hpc[c]   where the handler is: "idle" (no request), "engine" (blocked *)
(*            in sb.LookupURLsContext), "done" (the handler has returned)  *)
(*   req[c]   the request                                                  *)
(*   loc[c]   the handler's locals                                         *)
(*   eng[c]   the engine call the handler made                             *)
(*   resp[c]  the ResponseWriter                                           *)
(* The process:                                                            *)
(*   pcMain, pcSig, pcSrv  main, the signal goroutine, the serve goroutine *)
(*   exitChan      signals buffered in `exit` (capacity 1)                 *)
(*   notified      signal.Notify(exit, ...) has run                        *)
(*   down          `down` is closed                                        *)
(*   inShutdown, listening, keepAlives, shutdownCalls   the http.Server    *)
(*   elapsed       time since the shutdown context was made; -1 before     *)
(*   shutdownErr   the error of srv.Shutdown                               *)
(*   srvErr        the error of srv.ListenAndServe                         *)
(*   procExit      "running", "exit0", "exit1", or "killed" by a signal    *)
(*   nSignals      signals delivered so far                                *)
(*   pending       requests in flight when the signal was received and not *)
(*                 answered since                                          *)
(***************************************************************************)
VARIABLES hpc, req, loc, eng, resp,
          pcMain, pcSig, pcSrv, exitChan, notified, down,
          inShutdown, listening, keepAlives, shutdownCalls, elapsed,
          shutdownErr, srvErr, procExit, nSignals, pending

connVars == <<hpc, req, loc, eng, resp>>
lifeVars == <<pcMain, pcSig, pcSrv, exitChan, notified, down,
              inShutdown, listening, keepAlives, shutdownCalls, elapsed,
              shutdownErr, srvErr, procExit, nSignals>>
vars == <<hpc, req, loc, eng, resp,
          pcMain, pcSig, pcSrv, exitChan, notified, down,
          inShutdown, listening, keepAlives, shutdownCalls, elapsed,
          shutdownErr, srvErr, procExit, nSignals, pending>>

Conns == 1..MaxConns

NoBody == [enc |-> "empty", uri |-> <<>>, readable |-> TRUE]

NoRequest ==
  [handler |-> "none", method |-> "", alt |-> "", contentType |-> "",
   body |-> NoBody, rawURL |-> <<>>]

NoLocals == [mime |-> "", parsed |-> "", t |-> <<>>, threat |-> 0]

NoEngine == [calls |-> 0, arg |-> <<>>, err |-> "", threats |-> <<>>]

Running == procExit = "running"

\* The server hands a request on connection c to a handler.
Accepting(c) ==
  /\ Running
  /\ pcSrv = "serving" /\ listening /\ ~inShutdown
  /\ hpc[c] = "idle"

\* The handler on c returns, having made `rw` of the ResponseWriter.
Return(c, rw) ==
  /\ hpc' = [hpc EXCEPT ![c] = "done"]
  /\ resp' = [resp EXCEPT ![c] = FinishRequest(rw)]
  /\ pending' = pending \ {c}

(***************************************************************************)
(* func serveLookups, up to the engine call.                               *)
(***************************************************************************)
serveLookups_Decode(c, method, alt, contentType, body) ==
  LET r == [NoRequest EXCEPT !.handler = "lookup", !.method = method, !.alt = alt,
                             !.contentType = contentType, !.body = body]
      u == unmarshal(alt, contentType, body)
  IN  /\ Accepting(c)
      /\ req' = [req EXCEPT ![c] = r]
      /\ IF method # "POST"
         THEN /\ Return(c, HttpError(NewResponse, "invalid method", StatusBadRequest))
              /\ UNCHANGED <<loc, eng>>
         ELSE IF u.err # ""
         THEN /\ Return(c, HttpError(NewResponse, u.err, StatusBadRequest))
              /\ loc' = [loc EXCEPT ![c] = [NoLocals EXCEPT !.mime = u.mime]]
              /\ UNCHANGED eng
         ELSE /\ hpc' = [hpc EXCEPT ![c] = "engine"]
              /\ loc' = [loc EXCEPT ![c] = [NoLocals EXCEPT !.mime = u.mime, !.parsed = u.parsed]]
              /\ eng' = [eng EXCEPT ![c] = [NoEngine EXCEPT !.calls = 1, !.arg = <<u.uri>>]]
              /\ UNCHANGED <<resp, pending>>
      /\ UNCHANGED lifeVars

\* serveLookups without the return after the engine's error: it goes on to
\* build and encode a response
serveLookups_Respond_NoReturn(c, err, utss, types, serOK, wr) ==
  LET e == IF err # ""
           THEN HttpError(NewResponse, err, StatusInternalServerError)
           ELSE NewResponse
      m == marshal(e, types, loc[c].mime, serOK, wr)
  IN  /\ Running
      /\ hpc[c] = "engine" /\ req[c].handler = "lookup"
      /\ types \in composeThreatTypes(utss)
      /\ eng' = [eng EXCEPT ![c].err = err, ![c].threats = utss]
      /\ IF m.err # ""
         THEN Return(c, HttpError(m.rw, m.err, StatusInternalServerError))
         ELSE Return(c, m.rw)
      /\ UNCHANGED <<req, loc>>
      /\ UNCHANGED lifeVars

(***************************************************************************)
(* func serveLookups, from the return of sb.LookupURLsContext.  err and    *)
(* utss are what the engine returns; types is one of the lists the loops   *)
(* can build; serOK and wr are how marshal's serializer and Write end.     *)
(***************************************************************************)
serveLookups_Respond(c, err, utss, types, serOK, wr) ==
  LET m == marshal(NewResponse, types, loc[c].mime, serOK, wr)
  IN  /\ Running
      /\ hpc[c] = "engine" /\ req[c].handler = "lookup"
      /\ types \in composeThreatTypes(utss)
      /\ eng' = [eng EXCEPT ![c].err = err, ![c].threats = utss]
      /\ IF err # ""
         THEN Return(c, HttpError(NewResponse, err, StatusInternalServerError))
         ELSE IF m.err # ""
         THEN Return(c, HttpError(m.rw, m.err, StatusInternalServerError))
         ELSE Return(c, m.rw)
      /\ UNCHANGED <<req, loc>>
      /\ UNCHANGED lifeVars

(***************************************************************************)
(* func serveRedirector, up to the engine call.                            *)
(***************************************************************************)
serveRedirector_Parse(c, method, path, rawURL) ==
  LET r == [NoRequest EXCEPT !.handler = "redirect", !.method = method, !.rawURL = rawURL]
      parsedURL == urlParse(rawURL)
  IN  /\ Accepting(c)
      /\ req' = [req EXCEPT ![c] = r]
      /\ IF rawURL = <<>> \/ path # "/r"
         THEN /\ Return(c, HttpError(NewResponse, "404 page not found", StatusNotFound))
              /\ UNCHANGED <<loc, eng>>
         ELSE IF parsedURL.err # ""
         THEN /\ Return(c, HttpError(NewResponse, parsedURL.err, StatusInternalServerError))
              /\ UNCHANGED <<loc, eng>>
         ELSE /\ hpc' = [hpc EXCEPT ![c] = "engine"]
              /\ eng' = [eng EXCEPT ![c] = [NoEngine EXCEPT !.calls = 1, !.arg = <<rawURL>>]]
              /\ UNCHANGED <<loc, resp, pending>>
      /\ UNCHANGED lifeVars

\* serveRedirector letting through a url none of whose matches has a
\* template
serveRedirector_Respond_RedirectUntemplated(c, err, threats, fs, ex) ==
  LET i == firstTemplated(threats[1])
      p == parseTemplates(fs, <<>>, <<threatTemplate(threats[1][i]), "/interstitial.html">>)
      page == [NoChunk EXCEPT !.kind = "html", !.text = "interstitial", !.full = (ex = "ok")]
      written == IF ex = "none" THEN NewResponse ELSE Write(NewResponse, page)
  IN  /\ Running
      /\ hpc[c] = "engine" /\ req[c].handler = "redirect"
      /\ eng' = [eng EXCEPT ![c].err = err, ![c].threats = threats]
      /\ IF err # ""
         THEN /\ Return(c, HttpError(NewResponse, err, StatusInternalServerError))
              /\ UNCHANGED loc
         ELSE IF i = 0
         THEN /\ Return(c, safeRedirect(NewResponse, req[c].method, req[c].rawURL))
              /\ UNCHANGED loc
         ELSE IF p.err # ""
         THEN /\ Return(c, HttpError(NewResponse, p.err, StatusInternalServerError))
              /\ loc' = [loc EXCEPT ![c].t = p.t]
         ELSE /\ loc' = [loc EXCEPT ![c].t = p.t, ![c].threat = i]
              /\ IF ex = "ok"
                 THEN Return(c, written)
                 ELSE Return(c, HttpError(written, "template error", StatusInternalServerError))
      /\ UNCHANGED req
      /\ UNCHANGED lifeVars

(***************************************************************************)
(* func serveRedirector, from the return of sb.LookupURLsContext.  fs is   *)
(* the set of files the file system opens; ex is how t.Execute ends ("ok", *)
(* or an error after "partial" or "none" of the page was written).         *)
(***************************************************************************)
serveRedirector_Respond(c, err, threats, fs, ex) ==
  LET i == firstTemplated(threats[1])
      p == parseTemplates(fs, <<>>, <<threatTemplate(threats[1][i]), "/interstitial.html">>)
      page == [NoChunk EXCEPT !.kind = "html", !.text = "interstitial", !.full = (ex = "ok")]
      written == IF ex = "none" THEN NewResponse ELSE Write(NewResponse, page)
  IN  /\ Running
      /\ hpc[c] = "engine" /\ req[c].handler = "redirect"
      /\ eng' = [eng EXCEPT ![c].err = err, ![c].threats = threats]
      /\ IF err # ""
         THEN /\ Return(c, HttpError(NewResponse, err, StatusInternalServerError))
              /\ UNCHANGED loc
         ELSE IF Len(threats[1]) = 0
         THEN /\ Return(c, safeRedirect(NewResponse, req[c].method, req[c].rawURL))
              /\ UNCHANGED loc
         ELSE IF i = 0
         THEN /\ Return(c, NewResponse)
              /\ UNCHANGED loc
         ELSE IF p.err # ""
         THEN /\ Return(c, HttpError(NewResponse, p.err, StatusInternalServerError))
              /\ loc' = [loc EXCEPT ![c].t = p.t]
         ELSE /\ loc' = [loc EXCEPT ![c].t = p.t, ![c].threat = i]
              /\ IF ex = "ok"
                 THEN Return(c, written)
                 ELSE Return(c, HttpError(written, "template error", StatusInternalServerError))
      /\ UNCHANGED req
      /\ UNCHANGED lifeVars

\* serveStatus answering an engine error with a server error
serveStatus_FailOnError(c, sbErr) ==
  LET buf == [NoChunk EXCEPT !.kind = "json-status", !.text = ""]
  IN  /\ Accepting(c)
      /\ req' = [req EXCEPT ![c] = [NoRequest EXCEPT !.handler = "status"]]
      /\ eng' = [eng EXCEPT ![c] = [NoEngine EXCEPT !.calls = 1, !.err = sbErr]]
      /\ IF sbErr # ""
         THEN Return(c, HttpError(NewResponse, sbErr, StatusInternalServerError))
         ELSE Return(c, Write(HeaderSet(NewResponse, mimeJSON), buf))
      /\ UNCHANGED loc
      /\ UNCHANGED lifeVars

(***************************************************************************)
(* func serveStatus.  sbErr is the error of sb.Status(), "" for none.      *)
(* json.Marshal of the stats and the error string does not fail.           *)
(***************************************************************************)
serveStatus(c, sbErr) ==
  LET errStr == IF sbErr # "" THEN sbErr ELSE ""
      buf == [NoChunk EXCEPT !.kind = "json-status", !.text = errStr]
  IN  /\ Accepting(c)
      /\ req' = [req EXCEPT ![c] = [NoRequest EXCEPT !.handler = "status"]]
      /\ eng' = [eng EXCEPT ![c] = [NoEngine EXCEPT !.calls = 1, !.err = sbErr]]
      /\ Return(c, Write(HeaderSet(NewResponse, mimeJSON), buf))
      /\ UNCHANGED loc
      /\ UNCHANGED lifeVars

\* The connection is ready for its next request.
connIdle(c) ==
  /\ Running
  /\ hpc[c] = "done"
  /\ hpc' = [hpc EXCEPT ![c] = "idle"]
  /\ req' = [req EXCEPT ![c] = NoRequest]
  /\ loc' = [loc EXCEPT ![c] = NoLocals]
  /\ eng' = [eng EXCEPT ![c] = NoEngine]
  /\ resp' = [resp EXCEPT ![c] = NewResponse]
  /\ UNCHANGED pending
  /\ UNCHANGED lifeVars

(***************************************************************************)
(* The lifecycle: main.                                                    *)
(***************************************************************************)
\* exit, down := runServer(srv): makes the channels, starts both goroutines
main_runServer ==
  /\ Running /\ pcMain = "start"
  /\ pcMain' = "notify"
  /\ pcSig' = "recv"
  /\ pcSrv' = "start"
  /\ UNCHANGED <<exitChan, notified, down, inShutdown, listening, keepAlives,
                 shutdownCalls, elapsed, shutdownErr, srvErr, procExit, nSignals>>
  /\ UNCHANGED <<connVars, pending>>

\* signal.Notify(exit, os.Interrupt, syscall.SIGTERM, syscall.SIGQUIT)
main_Notify ==
  /\ Running /\ pcMain = "notify"
  /\ notified' = TRUE
  /\ pcMain' = "wait"
  /\ UNCHANGED <<pcSig, pcSrv, exitChan, down, inShutdown, listening, keepAlives,
                 shutdownCalls, elapsed, shutdownErr, srvErr, procExit, nSignals>>
  /\ UNCHANGED <<connVars, pending>>

\* <-down
main_WaitDown ==
  /\ Running /\ pcMain = "wait"
  /\ down
  /\ pcMain' = "print"
  /\ UNCHANGED <<pcSig, pcSrv, exitChan, notified, down, inShutdown, listening,
                 keepAlives, shutdownCalls, elapsed, shutdownErr, srvErr, procExit,
                 nSignals>>
  /\ UNCHANGED <<connVars, pending>>

\* fmt.Fprintln(os.Stdout, "wrserver exiting.") and the return of main: the
\* process exits with status 0, whatever the goroutines are doing.
main_Return ==
  /\ Running /\ pcMain = "print"
  /\ pcMain' = "exited"
  /\ procExit' = "exit0"
  /\ UNCHANGED <<pcSig, pcSrv, exitChan, notified, down, inShutdown, listening,
                 keepAlives, shutdownCalls, elapsed, shutdownErr, srvErr, nSignals>>
  /\ UNCHANGED <<connVars, pending>>

(***************************************************************************)
(* Termination signals from the environment.                               *)
(***************************************************************************)
\* Before signal.Notify has run the signal has its default disposition.
signal_Default ==
  /\ Running /\ ~notified
  /\ nSignals < MaxSignals
  /\ nSignals' = nSignals + 1
  /\ procExit' = "killed"
  /\ UNCHANGED <<pcMain, pcSig, pcSrv, exitChan, notified, down, inShutdown,
                 listening, keepAlives, shutdownCalls, elapsed, shutdownErr, srvErr>>
  /\ UNCHANGED <<connVars, pending>>

\* After it, the runtime sends on exit without blocking: a signal that finds
\* the buffer (capacity 1) full is dropped.
signal_Notified ==
  /\ Running /\ notified
  /\ nSignals < MaxSignals
  /\ nSignals' = nSignals + 1
  /\ exitChan' = IF exitChan < 1 THEN exitChan + 1 ELSE exitChan
  /\ UNCHANGED <<pcMain, pcSig, pcSrv, notified, down, inShutdown, listening,
                 keepAlives, shutdownCalls, elapsed, shutdownErr, srvErr, procExit>>
  /\ UNCHANGED <<connVars, pending>>

(***************************************************************************)
(* The lifecycle: the goroutine that shuts the server down.                *)
(***************************************************************************)
\* <-exit
sig_Receive ==
  /\ Running /\ pcSig = "recv"
  /\ exitChan > 0
  /\ exitChan' = exitChan - 1
  /\ pcSig' = "timeout"
  /\ pending' = { c \in Conns : hpc[c] = "engine" }
  /\ UNCHANGED <<pcMain, pcSrv, notified, down, inShutdown, listening, keepAlives,
                 shutdownCalls, elapsed, shutdownErr, srvErr, procExit, nSignals>>
  /\ UNCHANGED connVars

\* the goroutine going from the context straight to srv.Shutdown
sig_WithTimeout_SkipKeepAlives ==
  /\ Running /\ pcSig = "timeout"
  /\ elapsed' = 0
  /\ pcSig' = "shutdown"
  /\ UNCHANGED <<pcMain, pcSrv, exitChan, notified, down, inShutdown, listening,
                 keepAlives, shutdownCalls, shutdownErr, srvErr, procExit, nSignals>>
  /\ UNCHANGED <<connVars, pending>>

\* timeout, cancel := context.WithTimeout(context.Background(), 5*time.Second)
sig_WithTimeout ==
  /\ Running /\ pcSig = "timeout"
  /\ elapsed' = 0
  /\ pcSig' = "keepalives"
  /\ UNCHANGED <<pcMain, pcSrv, exitChan, notified, down, inShutdown, listening,
                 keepAlives, shutdownCalls, shutdownErr, srvErr, procExit, nSignals>>
  /\ UNCHANGED <<connVars, pending>>

\* srv.SetKeepAlivesEnabled(false)
sig_SetKeepAlivesEnabled ==
  /\ Running /\ pcSig = "keepalives"
  /\ keepAlives' = FALSE
  /\ pcSig' = "shutdown"
  /\ UNCHANGED <<pcMain, pcSrv, exitChan, notified, down, inShutdown, listening,
                 shutdownCalls, elapsed, shutdownErr, srvErr, procExit, nSignals>>
  /\ UNCHANGED <<connVars, pending>>

\* srv.Shutdown(timeout), its start: the server is marked as shutting down and
\* its listeners are closed (closeErr: closing an open listener fails).
sig_ShutdownStart(closeErr) ==
  /\ Running /\ pcSig = "shutdown"
  /\ inShutdown' = TRUE
  /\ listening' = FALSE
  /\ shutdownCalls' = shutdownCalls + 1
  /\ shutdownErr' = IF listening /\ closeErr THEN "close error" ELSE ""
  /\ pcSig' = "polling"
  /\ UNCHANGED <<pcMain, pcSrv, exitChan, notified, down, keepAlives, elapsed,
                 srvErr, procExit, nSignals>>
  /\ UNCHANGED <<connVars, pending>>

\* srv.Shutdown(timeout), its return: with the listeners' error once no
\* connection is active ...
sig_ShutdownIdle ==
  /\ Running /\ pcSig = "polling"
  /\ \A c \in Conns : hpc[c] # "engine"
  /\ pcSig' = "returned"
  /\ UNCHANGED <<pcMain, pcSrv, exitChan, notified, down, inShutdown, listening,
                 keepAlives, shutdownCalls, elapsed, shutdownErr, srvErr, procExit,
                 nSignals>>
  /\ UNCHANGED <<connVars, pending>>

\* ... or with the context's error when the deadline passes first.
sig_ShutdownDeadline ==
  /\ Running /\ pcSig = "polling"
  /\ \E c \in Conns : hpc[c] = "engine"
  /\ elapsed >= ShutdownTimeout
  /\ shutdownErr' = "context deadline exceeded"
  /\ pcSig' = "returned"
  /\ UNCHANGED <<pcMain, pcSrv, exitChan, notified, down, inShutdown, listening,
                 keepAlives, shutdownCalls, elapsed, srvErr, procExit, nSignals>>
  /\ UNCHANGED <<connVars, pending>>

\* log.Fatalf("Server error when shutting down: %s", err)
sig_Fatal ==
  /\ Running /\ pcSig = "returned"
  /\ shutdownErr # ""
  /\ procExit' = "exit1"
  /\ UNCHANGED <<pcMain, pcSig, pcSrv, exitChan, notified, down, inShutdown,
                 listening, keepAlives, shutdownCalls, elapsed, shutdownErr, srvErr,
                 nSignals>>
  /\ UNCHANGED <<connVars, pending>>

\* the goroutine looping back to wait for the next signal
sig_Completed_Loop ==
  /\ Running /\ pcSig = "returned"
  /\ shutdownErr = ""
  /\ pcSig' = "recv"
  /\ UNCHANGED <<pcMain, pcSrv, exitChan, notified, down, inShutdown, listening,
                 keepAlives, shutdownCalls, elapsed, shutdownErr, srvErr, procExit,
                 nSignals>>
  /\ UNCHANGED <<connVars, pending>>

\* fmt.Fprintln(os.Stdout, "Server shutdown completed.")
sig_Completed ==
  /\ Running /\ pcSig = "returned"
  /\ shutdownErr = ""
  /\ pcSig' = "done"
  /\ UNCHANGED <<pcMain, pcSrv, exitChan, notified, down, inShutdown, listening,
                 keepAlives, shutdownCalls, elapsed, shutdownErr, srvErr, procExit,
                 nSignals>>
  /\ UNCHANGED <<connVars, pending>>

(***************************************************************************)
(* The lifecycle: the goroutine that serves.                               *)
(***************************************************************************)
\* srv.ListenAndServe(), its start: http.ErrServerClosed at once when the
\* server is already shutting down, else the listener is bound (bindOK) or
\* the bind error is returned.
srv_ListenAndServe(bindOK) ==
  /\ Running /\ pcSrv = "start"
  /\ IF inShutdown
     THEN /\ srvErr' = "http: Server closed"
          /\ pcSrv' = "returned"
          /\ UNCHANGED listening
     ELSE IF bindOK
     THEN /\ listening' = TRUE
          /\ pcSrv' = "serving"
          /\ UNCHANGED srvErr
     ELSE /\ srvErr' = "listen error"
          /\ pcSrv' = "returned"
          /\ UNCHANGED listening
  /\ UNCHANGED <<pcMain, pcSig, exitChan, notified, down, inShutdown, keepAlives,
                 shutdownCalls, elapsed, shutdownErr, procExit, nSignals>>
  /\ UNCHANGED <<connVars, pending>>

\* srv.ListenAndServe(), its return from the accept loop: as soon as
\* Shutdown has closed the listener, with http.ErrServerClosed ...
srv_ServerClosed ==
  /\ Running /\ pcSrv = "serving"
  /\ inShutdown
  /\ srvErr' = "http: Server closed"
  /\ pcSrv' = "returned"
  /\ UNCHANGED <<pcMain, pcSig, exitChan, notified, down, inShutdown, listening,
                 keepAlives, shutdownCalls, elapsed, shutdownErr, procExit, nSignals>>
  /\ UNCHANGED <<connVars, pending>>

\* ... or when Accept fails for good, with that error.
srv_AcceptError ==
  /\ Running /\ pcSrv = "serving"
  /\ ~inShutdown
  /\ srvErr' = "accept error"
  /\ listening' = FALSE
  /\ pcSrv' = "returned"
  /\ UNCHANGED <<pcMain, pcSig, exitChan, notified, down, inShutdown, keepAlives,
                 shutdownCalls, elapsed, shutdownErr, procExit, nSignals>>
  /\ UNCHANGED <<connVars, pending>>

\* log.Fatalf("Server error: %s", err)
srv_Fatal ==
  /\ Running /\ pcSrv = "returned"
  /\ srvErr # "" /\ srvErr # "http: Server closed"
  /\ procExit' = "exit1"
  /\ UNCHANGED <<pcMain, pcSig, pcSrv, exitChan, notified, down, inShutdown,
                 listening, keepAlives, shutdownCalls, elapsed, shutdownErr, srvErr,
                 nSignals>>
  /\ UNCHANGED <<connVars, pending>>

\* the serving goroutine ending without close(down)
srv_CloseDown_NoClose ==
  /\ Running /\ pcSrv = "returned"
  /\ ~(srvErr # "" /\ srvErr # "http: Server closed")
  /\ pcSrv' = "done"
  /\ UNCHANGED <<pcMain, pcSig, exitChan, notified, down, inShutdown, listening,
                 keepAlives, shutdownCalls, elapsed, shutdownErr, srvErr, procExit,
                 nSignals>>
  /\ UNCHANGED <<connVars, pending>>

\* close(down) whatever srv.ListenAndServe returned
srv_CloseDown_AnyError ==
  /\ Running /\ pcSrv = "returned"
  /\ down' = TRUE
  /\ pcSrv' = "done"
  /\ UNCHANGED <<pcMain, pcSig, exitChan, notified, inShutdown, listening,
                 keepAlives, shutdownCalls, elapsed, shutdownErr, srvErr, procExit,
                 nSignals>>
  /\ UNCHANGED <<connVars, pending>>

\* close(down)
srv_CloseDown ==
  /\ Running /\ pcSrv = "returned"
  /\ ~(srvErr # "" /\ srvErr # "http: Server closed")
  /\ down' = TRUE
  /\ pcSrv' = "done"
  /\ UNCHANGED <<pcMain, pcSig, exitChan, notified, inShutdown, listening,
                 keepAlives, shutdownCalls, elapsed, shutdownErr, srvErr, procExit,
                 nSignals>>
  /\ UNCHANGED <<connVars, pending>>

\* One unit of time passes on the shutdown context's clock.
tick ==
  /\ Running
  /\ elapsed >= 0 /\ elapsed < ShutdownTimeout
  /\ elapsed' = elapsed + 1
  /\ UNCHANGED <<pcMain, pcSig, pcSrv, exitChan, notified, down, inShutdown,
                 listening, keepAlives, shutdownCalls, shutdownErr, srvErr, procExit,
                 nSignals>>
  /\ UNCHANGED <<connVars, pending>>

(***************************************************************************)
(* Inputs.                                                                 *)
(***************************************************************************)
Methods == {"GET", "POST"}
Alts == {"", "json", "proto", mimeJSON, mimeProto, "xml"}
ContentTypes == {"", mimeJSON, mimeProto, "text/plain"}

\* the threat types the engine reports in the specifications
EngineThreatTypes ==
  {ThreatTypeUnspecified, ThreatTypeMalware, ThreatTypeSocialEngineering}

MatchLists == SeqsUpTo(EngineThreatTypes, MaxMatches)
RawURLs == SeqsUpTo(URLChars, MaxURLLen)
EngineErrors == {"", "engine error"}

\* how marshal can end: the serializer fails, or Write ends one of three ways
MarshalEnds == {<<FALSE, "ok">>, <<TRUE, "ok">>, <<TRUE, "partial">>, <<TRUE, "none">>}

\* the file systems: every template file is there, or one is missing
FileSystems == {TemplateFiles} \cup { TemplateFiles \ {f} : f \in TemplateFiles }

(***************************************************************************)
(* Specification of the handlers: one connection of a serving server.      *)
(***************************************************************************)
InitConns ==
  /\ hpc = [c \in Conns |-> "idle"]
  /\ req = [c \in Conns |-> NoRequest]
  /\ loc = [c \in Conns |-> NoLocals]
  /\ eng = [c \in Conns |-> NoEngine]
  /\ resp = [c \in Conns |-> NewResponse]
  /\ pending = {}

\* The server after start-up: main waits on down, the signal goroutine waits
\* on exit, the serve goroutine is in its accept loop.
InitServing ==
  /\ InitConns
  /\ pcMain = "wait" /\ pcSig = "recv" /\ pcSrv = "serving"
  /\ exitChan = 0 /\ notified = TRUE /\ down = FALSE
  /\ inShutdown = FALSE /\ listening = TRUE /\ keepAlives = TRUE
  /\ shutdownCalls = 0 /\ elapsed = -1
  /\ shutdownErr = "" /\ srvErr = "" /\ procExit = "running" /\ nSignals = 0

LookupDecode ==
  /\ Accepting(1)
  /\ \E method \in Methods, alt \in Alts, contentType \in ContentTypes, body \in Bodies :
       serveLookups_Decode(1, method, alt, contentType, body)

LookupRespond ==
  /\ hpc[1] = "engine" /\ req[1].handler = "lookup"
  /\ \/ \E err \in EngineErrors \ {""} :
          serveLookups_Respond(1, err, <<<<>>>>, <<>>, TRUE, "ok")
     \/ \E ts \in MatchLists, m \in MarshalEnds :
          \E types \in composeThreatTypes(<<ts>>) :
            serveLookups_Respond(1, "", <<ts>>, types, m[1], m[2])

RedirectParse ==
  /\ Accepting(1)
  /\ \E method \in Methods, rawURL \in RawURLs :
       serveRedirector_Parse(1, method, redirectPath, rawURL)

RedirectRespond ==
  /\ hpc[1] = "engine" /\ req[1].handler = "redirect"
  /\ \/ \E err \in EngineErrors \ {""} :
          serveRedirector_Respond(1, err, <<<<>>>>, TemplateFiles, "ok")
     \/ \E ts \in MatchLists, fs \in FileSystems, ex \in {"ok", "partial", "none"} :
          serveRedirector_Respond(1, "", <<ts>>, fs, ex)

Status == \E sbErr \in EngineErrors : serveStatus(1, sbErr)

NextRequest == connIdle(1)

Next ==
  \/ LookupDecode
  \/ LookupRespond
  \/ RedirectParse
  \/ RedirectRespond
  \/ Status
  \/ NextRequest

Spec == InitServing /\ [][Next]_vars

(***************************************************************************)
(* Specification of the lifecycle: the process from its start, serving     *)
(* lookups while signals arrive.                                           *)
(***************************************************************************)
Init ==
  /\ InitConns
  /\ pcMain = "start" /\ pcSig = "unborn" /\ pcSrv = "unborn"
  /\ exitChan = 0 /\ notified = FALSE /\ down = FALSE
  /\ inShutdown = FALSE /\ listening = FALSE /\ keepAlives = TRUE
  /\ shutdownCalls = 0 /\ elapsed = -1
  /\ shutdownErr = "" /\ srvErr = "" /\ procExit = "running" /\ nSignals = 0

JSONBody == [enc |-> "json", uri |-> SomeURI, readable |-> TRUE]

LifeLookupDecode ==
  \E c \in Conns, method \in Methods :
    serveLookups_Decode(c, method, "", mimeJSON, JSONBody)

LifeLookupRespond ==
  \E c \in Conns, err \in EngineErrors :
    serveLookups_Respond(c, err, <<<<>>>>, <<>>, TRUE, "ok")

LifeNextRequest == \E c \in Conns : connIdle(c)

ShutdownStart == \E closeErr \in BOOLEAN : sig_ShutdownStart(closeErr)

ListenAndServe == \E bindOK \in BOOLEAN : srv_ListenAndServe(bindOK)

NextLife ==
  \/ main_runServer
  \/ main_Notify
  \/ main_WaitDown
  \/ main_Return
  \/ signal_Default
  \/ signal_Notified
  \/ sig_Receive
  \/ sig_WithTimeout
  \/ sig_SetKeepAlivesEnabled
  \/ ShutdownStart
  \/ sig_ShutdownIdle
  \/ sig_ShutdownDeadline
  \/ sig_Fatal
  \/ sig_Completed
  \/ ListenAndServe
  \/ srv_ServerClosed
  \/ srv_AcceptError
  \/ srv_Fatal
  \/ srv_CloseDown
  \/ tick
  \/ LifeLookupDecode
  \/ LifeLookupRespond
  \/ LifeNextRequest

SpecLife == Init /\ [][NextLife]_vars

(***************************************************************************)
(* Specification of the lifecycle under fair scheduling: a goroutine that  *)
(* can take its next step takes it, and the clock of the shutdown context  *)
(* runs.  Nothing is assumed of the environment: signals, requests, the    *)
(* engine's answers and a failure of Accept may or may not come.           *)
(***************************************************************************)
\* the steps of main
mainStep ==
  \/ main_runServer
  \/ main_Notify
  \/ main_WaitDown
  \/ main_Return

\* the steps of the goroutine that shuts the server down
sigStep ==
  \/ sig_Receive
  \/ sig_WithTimeout
  \/ sig_SetKeepAlivesEnabled
  \/ ShutdownStart
  \/ sig_ShutdownIdle
  \/ sig_ShutdownDeadline
  \/ sig_Fatal
  \/ sig_Completed

\* the steps of the goroutine that serves
srvStep ==
  \/ ListenAndServe
  \/ srv_ServerClosed
  \/ srv_Fatal
  \/ srv_CloseDown

SpecLifeFair ==
  /\ Init /\ [][NextLife]_vars
  /\ WF_vars(mainStep)
  /\ WF_vars(sigStep)
  /\ WF_vars(srvStep)
  /\ WF_vars(tick)

(***************************************************************************)
(* Vocabulary of the properties.                                           *)
(***************************************************************************)
\* the handler on c has returned from a request of this kind
Answered(c, handler) == hpc[c] = "done" /\ req[c].handler = handler

\* the lookup on c got its response from marshal: the header went out with
\* status 200 and the Content-Type marshal had set
Serialized(c) ==
  /\ Answered(c, "lookup")
  /\ eng[c].calls = 1 /\ eng[c].err = ""
  /\ resp[c].status = StatusOK

\* the lookup on c succeeded: marshal wrote the whole message
LookupSucceeded(c) ==
  /\ Serialized(c)
  /\ Len(resp[c].body) = 1
  /\ resp[c].body[1].kind \in {"json", "proto"} /\ resp[c].body[1].full

\* the MIME type a format selector names
NamedFormat(x) ==
  CASE x \in {"json", "application/json"} -> "application/json"
    [] x \in {"proto", "application/x-protobuf"} -> "application/x-protobuf"
    [] OTHER -> "unrecognized"

C2_DownOnlyAfterShutdownReturned ==
  pcMain \in {"print", "exited"} => pcSig \in {"returned", "done"}

(***************************************************************************)
(* C3.  As claimed: a lookup in flight when the termination signal is      *)
(* received, and that the shutdown timeout does not cut off, is answered   *)
(* before the process observes down and exits.                             *)
(***************************************************************************)
C3_InFlightAnsweredBeforeExit ==
  procExit = "exit0" => (pending = {} \/ elapsed >= ShutdownTimeout)

(***************************************************************************)
(* C4.  As claimed: when srv.Shutdown has failed, the process does not end *)
(* with exit status 0.                                                     *)
(***************************************************************************)
C4_ShutdownFailureNeverExitsZero ==
  (pcSig = "returned" /\ shutdownErr # "") => procExit # "exit0"

C6_ThreatTypesAreTheDistinctMatches ==
  \A c \in Conns :
    LookupSucceeded(c) =>
      LET types == resp[c].body[1].types
          matches == eng[c].threats[1]
      IN  /\ \A i, j \in 1..Len(types) : types[i] = types[j] => i = j
          /\ Range(types) = Range(matches)
          /\ matches = <<>> => types = <<>>

\* matches of types A, A, B in some order, answered with two types
C6_Witness ==
  \E c \in Conns :
    /\ LookupSucceeded(c)
    /\ Len(eng[c].threats[1]) = 3
    /\ Cardinality(Range(eng[c].threats[1])) = 2
    /\ Len(resp[c].body[1].types) = 2

(***************************************************************************)
(* Vocabulary of the redirect properties.                                  *)
(***************************************************************************)
\* the redirect request on c reached the engine, which reported no error
RedirectLookedUp(c) ==
  /\ Answered(c, "redirect")
  /\ eng[c].calls = 1 /\ eng[c].err = ""

\* the url names a scheme (letters and digits, a letter first, before the
\* first ':') or, without one, a host ("//" and then something)
HasSchemeOrHost(u) ==
  \/ \E i \in 2..Len(u) :
       /\ u[i] = ":" /\ u[1] \in Letters
       /\ \A j \in 1..(i - 1) : u[j] \in Letters \cup Digits
  \/ Len(u) >= 3 /\ u[1] = "/" /\ u[2] = "/" /\ u[3] # "/"

NotSlash(ch) == ch # "/"

C7_WitnessAbsolute ==
  \E c \in Conns :
    /\ RedirectLookedUp(c) /\ eng[c].threats[1] = <<>>
    /\ req[c].rawURL = <<"a", ":", "/">>
    /\ resp[c].status = StatusFound /\ resp[c].wireLoc = <<"a", ":", "/">>

C8_FirstTemplatedMatchIsRendered ==
  \A c \in Conns :
    (RedirectLookedUp(c) /\ eng[c].threats[1] # <<>> /\ loc[c].threat # 0) =>
      LET matches == eng[c].threats[1]
          k == loc[c].threat
      IN  /\ k \in 1..Len(matches)
          /\ matches[k] \in threatTemplateKeys
          /\ \A j \in 1..(k - 1) : matches[j] \notin threatTemplateKeys
          /\ loc[c].t = <<threatTemplate(matches[k]), "/interstitial.html">>

\* a template-less match, then malware, then social engineering: the
\* malware interstitial is rendered
C8_Witness ==
  \E c \in Conns :
    /\ RedirectLookedUp(c)
    /\ eng[c].threats[1] =
         <<ThreatTypeUnspecified, ThreatTypeMalware, ThreatTypeSocialEngineering>>
    /\ loc[c].threat = 2
    /\ loc[c].t = <<"/malware.tmpl", "/interstitial.html">>
    /\ resp[c].status = StatusOK

(***************************************************************************)
(* C9.  As claimed: a redirect request whose url cannot be parsed is       *)
(* answered with a 4xx status and a plain-text reason, and the engine is   *)
(* not called.                                                             *)
(***************************************************************************)
C9_MalformedURLIsClientError ==
  \A c \in Conns :
    (Answered(c, "redirect") /\ req[c].rawURL # <<>> /\ urlParse(req[c].rawURL).err # "") =>
      /\ resp[c].status >= 400 /\ resp[c].status <= 499
      /\ resp[c].wireCT = "text/plain; charset=utf-8"
      /\ eng[c].calls = 0

(***************************************************************************)
(* Vocabulary of C10.                                                      *)
(***************************************************************************)
\* alt, or the Content-Type header when there is no alt, names a format
FormatRecognized(alt, contentType) ==
  NamedFormat(IF alt = "" THEN contentType ELSE alt) # "unrecognized"

\* the body can be read and is a document of the format of contentType
BodyParses(contentType, body) ==
  /\ body.readable
  /\ contentType = mimeJSON => body.enc = "json"
  /\ contentType = mimeProto => body.enc \in {"proto", "empty"}

(***************************************************************************)
(* C10.  As claimed: a lookup request reaches the engine only if its       *)
(* method is POST, its format is recognized and its body was parsed for    *)
(* the declared Content-Type; every other lookup request is answered 400   *)
(* without an engine call.                                                 *)
(***************************************************************************)
C10_EngineOnlyAfterBodyParsed ==
  \A c \in Conns :
    (req[c].handler = "lookup" /\ hpc[c] # "idle") =>
      /\ eng[c].calls = 1 =>
           /\ req[c].method = "POST"
           /\ FormatRecognized(req[c].alt, req[c].contentType)
           /\ loc[c].parsed # ""
      /\ eng[c].calls = 0 =>
           hpc[c] = "done" /\ resp[c].status = StatusBadRequest

(***************************************************************************)
(* C10, amended.  A lookup request reaches the engine exactly when its     *)
(* method is POST, its format is recognized and, if its Content-Type is    *)
(* the JSON or the protobuf MIME type, its body was read and parsed in     *)
(* that format; under any other Content-Type the body is not parsed and    *)
(* the engine is asked about the empty uri.  Every other lookup request is *)
(* answered 400 without an engine call.                                    *)
(***************************************************************************)
C10_EngineOnlyAfterDecode ==
  \A c \in Conns :
    (req[c].handler = "lookup" /\ hpc[c] # "idle") =>
      LET typed == req[c].contentType \in {mimeJSON, mimeProto}
      IN  /\ eng[c].calls = 1 <=>
               /\ req[c].method = "POST"
               /\ FormatRecognized(req[c].alt, req[c].contentType)
               /\ typed => BodyParses(req[c].contentType, req[c].body)
          /\ (eng[c].calls = 1 /\ typed) => loc[c].parsed = req[c].contentType
          /\ (eng[c].calls = 1 /\ ~typed) => (loc[c].parsed = "" /\ eng[c].arg = << <<>> >>)
          /\ eng[c].calls = 0 =>
               hpc[c] = "done" /\ resp[c].status = StatusBadRequest

\* alt=json with a text/plain body that is no JSON: the engine is called
C10_Witness ==
  \E c \in Conns :
    /\ req[c].handler = "lookup" /\ hpc[c] = "engine"
    /\ req[c].alt = "json" /\ req[c].contentType = "text/plain"
    /\ req[c].body.enc = "garbage"
    /\ eng[c].calls = 1

\* a POST with the JSON Content-Type and a body that is no JSON: 400
C10_WitnessRejected ==
  \E c \in Conns :
    /\ Answered(c, "lookup")
    /\ req[c].method = "POST" /\ req[c].contentType = mimeJSON
    /\ req[c].body.enc = "garbage" /\ req[c].body.readable
    /\ resp[c].status = StatusBadRequest /\ eng[c].calls = 0

(***************************************************************************)
(* Vocabulary of C11.                                                      *)
(***************************************************************************)
\* the lookup on c was answered 400 with unmarshal's unsupported-format error
FormatRejected(c) ==
  /\ Answered(c, "lookup")
  /\ resp[c].status = StatusBadRequest
  /\ Len(resp[c].body) = 1
  /\ resp[c].body[1].text = "invalid interchange format"

\* a POST to the lookup endpoint that unmarshal has seen
LookupPosted(c) ==
  req[c].handler = "lookup" /\ hpc[c] # "idle" /\ req[c].method = "POST"

(***************************************************************************)
(* C11.  As claimed: a POST to the lookup endpoint is rejected with the    *)
(* unsupported-format error exactly when neither alt nor the Content-Type  *)
(* header names a recognized format; a recognized alt takes precedence     *)
(* over the header; a rejected request does not reach the engine.          *)
(***************************************************************************)
C11_RejectedIffNeitherRecognized ==
  \A c \in Conns :
    LookupPosted(c) =>
      /\ FormatRejected(c) <=>
           /\ NamedFormat(req[c].alt) = "unrecognized"
           /\ NamedFormat(req[c].contentType) = "unrecognized"
      /\ NamedFormat(req[c].alt) # "unrecognized" => loc[c].mime = NamedFormat(req[c].alt)
      /\ FormatRejected(c) => eng[c].calls = 0

(***************************************************************************)
(* C11, amended.  A POST to the lookup endpoint is rejected with the       *)
(* unsupported-format error exactly when the selector of the format, which *)
(* is alt when alt is present and the Content-Type header only when alt is *)
(* absent, names no recognized format: an unrecognized alt is rejected     *)
(* whatever the header says.  A recognized alt takes precedence over the   *)
(* header; a rejected request does not reach the engine.                   *)
(***************************************************************************)
C11_RejectedIffSelectorUnrecognized ==
  \A c \in Conns :
    LookupPosted(c) =>
      /\ FormatRejected(c) <=> ~FormatRecognized(req[c].alt, req[c].contentType)
      /\ NamedFormat(req[c].alt) # "unrecognized" => loc[c].mime = NamedFormat(req[c].alt)
      /\ FormatRejected(c) => eng[c].calls = 0

\* alt=xml with the JSON Content-Type and a JSON body: rejected
C11_Witness ==
  \E c \in Conns :
    /\ LookupPosted(c) /\ FormatRejected(c)
    /\ req[c].alt = "xml" /\ req[c].contentType = mimeJSON
    /\ req[c].body.enc = "json" /\ req[c].body.readable
    /\ eng[c].calls = 0

\* alt=proto over the JSON Content-Type: the format is protobuf
C11_WitnessPrecedence ==
  \E c \in Conns :
    /\ LookupPosted(c) /\ hpc[c] = "engine"
    /\ req[c].alt = "proto" /\ req[c].contentType = mimeJSON
    /\ loc[c].mime = mimeProto

(***************************************************************************)
(* C12.  Whatever sb.Status() returns, the status endpoint answers 200     *)
(* with one JSON document that carries the statistics and an error string; *)
(* the error string is empty exactly when the engine reported no error,    *)
(* and is the engine's error text otherwise.  An engine error never makes  *)
(* the status a failure status.                                            *)
(***************************************************************************)
C12_StatusAlwaysOKWithErrorString ==
  \A c \in Conns :
    Answered(c, "status") =>
      /\ eng[c].calls = 1
      /\ resp[c].status = StatusOK
      /\ resp[c].wireCT = mimeJSON
      /\ Len(resp[c].body) = 1
      /\ resp[c].body[1].kind = "json-status" /\ resp[c].body[1].full
      /\ resp[c].body[1].text = "" <=> eng[c].err = ""
      /\ resp[c].body[1].text = eng[c].err

\* the engine reports an error: 200, with the error's text in the document
C12_Witness ==
  \E c \in Conns :
    /\ Answered(c, "status")
    /\ eng[c].err = "engine error"
    /\ resp[c].status = StatusOK
    /\ resp[c].body[1].text = "engine error"

\* the engine reports none: 200, with the empty error string
C12_WitnessNoError ==
  \E c \in Conns :
    /\ Answered(c, "status")
    /\ eng[c].err = ""
    /\ resp[c].status = StatusOK
    /\ resp[c].body[1].text = ""

(***************************************************************************)
(* C13.  When the engine call of a lookup fails, the handler answers 500   *)
(* with the engine's error text and nothing else: no lookup response is    *)
(* built or encoded, and nothing is written after the error.               *)
(***************************************************************************)
C13_EngineFailureIsServerErrorOnly ==
  \A c \in Conns :
    (Answered(c, "lookup") /\ eng[c].calls = 1 /\ eng[c].err # "") =>
      /\ resp[c].status = StatusInternalServerError
      /\ resp[c].wireCT = "text/plain; charset=utf-8"
      /\ Len(resp[c].body) = 1
      /\ resp[c].body[1].kind = "text"
      /\ resp[c].body[1].text = eng[c].err
      /\ \A i \in 1..Len(resp[c].body) : resp[c].body[i].kind \notin {"json", "proto"}

\* a decoded lookup whose engine call failed
C13_Witness ==
  \E c \in Conns :
    /\ Answered(c, "lookup")
    /\ req[c].method = "POST" /\ loc[c].mime = mimeJSON
    /\ eng[c].calls = 1 /\ eng[c].err = "engine error"
    /\ resp[c].status = StatusInternalServerError
    /\ resp[c].body[1].text = "engine error"

(***************************************************************************)
(* Vocabulary of C14.                                                      *)
(***************************************************************************)
\* marshal failed for the lookup on c: the engine had answered, and the
\* handler called http.Error with marshal's error
EncodingFailed(c) ==
  /\ Answered(c, "lookup")
  /\ eng[c].calls = 1 /\ eng[c].err = ""
  /\ \E i \in 1..Len(resp[c].body) :
       /\ resp[c].body[i].kind = "text"
       /\ resp[c].body[i].text \in {"marshal error", "write error"}

(***************************************************************************)
(* C14.  As claimed: whenever the encoding of a lookup response fails, in  *)
(* the serializer or while the body is written, the client receives a      *)
(* server error and no part of the encoded response.                       *)
(***************************************************************************)
C14_EncodingFailureIsServerError ==
  \A c \in Conns :
    EncodingFailed(c) =>
      /\ resp[c].status = StatusInternalServerError
      /\ \A i \in 1..Len(resp[c].body) : resp[c].body[i].kind \notin {"json", "proto"}

(***************************************************************************)
(* C15.  The events of the lifecycle occur in this order: a termination    *)
(* signal is received on exit, keep-alives are disabled, srv.Shutdown is   *)
(* started under the context with the timeout, down is closed.  Each event *)
(* is lasting, so the order is that each has happened only where the one   *)
(* before it has; in particular down is never closed where Shutdown was    *)
(* not started.                                                            *)
(***************************************************************************)
C15_LifecycleEventsInOrder ==
  /\ down => (shutdownCalls >= 1 /\ inShutdown)
  /\ shutdownCalls >= 1 => (~keepAlives /\ elapsed >= 0)
  /\ ~keepAlives => (pcSig \notin {"unborn", "recv", "timeout"} /\ nSignals >= 1)
  /\ pcSig \notin {"unborn", "recv"} => nSignals >= 1

\* a run through all four events
C15_Witness ==
  /\ nSignals >= 1 /\ ~keepAlives /\ shutdownCalls = 1 /\ down
  /\ pcSrv = "done"

(***************************************************************************)
(* Vocabulary of C16 and C17.                                              *)
(***************************************************************************)
\* the engine reported matches for the redirect request on c
RedirectMatched(c) == RedirectLookedUp(c) /\ eng[c].threats[1] # <<>>

\* the handler on c executed an interstitial template: it passed a threat
\* to it, or part of the page is in the body
Rendered(c) ==
  \/ loc[c].threat # 0
  \/ \E i \in 1..Len(resp[c].body) : resp[c].body[i].kind = "html"

\* the response on c sends its client somewhere
Redirected(c) ==
  \/ resp[c].status = StatusFound
  \/ resp[c].wireLoc # <<>>
  \/ resp[c].hdrLoc # <<>>

(***************************************************************************)
(* C16.  A redirect request for which the engine reports matches is never  *)
(* answered with a redirect, and an interstitial is rendered for it only   *)
(* if one of the matches has a threat type with a template.                *)
(***************************************************************************)
C16_MatchedURLNeverRedirected ==
  \A c \in Conns :
    RedirectMatched(c) =>
      /\ ~Redirected(c)
      /\ Rendered(c) => \E k \in 1..Len(eng[c].threats[1]) :
                          eng[c].threats[1][k] \in threatTemplateKeys

\* a social-engineering match: the interstitial, and no redirect
C16_Witness ==
  \E c \in Conns :
    /\ RedirectMatched(c)
    /\ eng[c].threats[1] = <<ThreatTypeSocialEngineering>>
    /\ Rendered(c) /\ ~Redirected(c)
    /\ resp[c].status = StatusOK
    /\ Len(resp[c].body) = 1 /\ resp[c].body[1].full

\* a match without a template: no interstitial, and no redirect
C16_WitnessNoTemplate ==
  \E c \in Conns :
    /\ RedirectMatched(c)
    /\ eng[c].threats[1] = <<ThreatTypeUnspecified>>
    /\ ~Rendered(c) /\ ~Redirected(c)

(***************************************************************************)
(* C17.  When the engine reports matches for a redirect request and none   *)
(* has a threat type with a template, the handler does nothing: it sends   *)
(* no redirect, loads and renders no template, reports no error and writes *)
(* no body.                                                                *)
(***************************************************************************)
C17_UntemplatedMatchesDoNothing ==
  \A c \in Conns :
    (RedirectMatched(c) /\
       \A k \in 1..Len(eng[c].threats[1]) : eng[c].threats[1][k] \notin threatTemplateKeys) =>
      /\ ~Redirected(c)
      /\ loc[c].t = <<>> /\ ~Rendered(c)
      /\ resp[c].implicit
      /\ resp[c].status < StatusBadRequest
      /\ resp[c].body = <<>>

\* two matches of a type without a template: the handler returned having
\* written nothing
C17_Witness ==
  \E c \in Conns :
    /\ RedirectMatched(c)
    /\ eng[c].threats[1] = <<ThreatTypeUnspecified, ThreatTypeUnspecified>>
    /\ resp[c].implicit /\ resp[c].body = <<>> /\ loc[c].t = <<>>

(***************************************************************************)
(* C18.  However many termination signals are delivered, and however they  *)
(* interleave with the requests, only the first one received is acted      *)
(* upon: srv.Shutdown is started at most once, the goroutine that received *)
(* a signal never waits for another, and the delivery of a signal is never *)
(* blocked: a later signal is held in the buffer of exit, which holds at   *)
(* most one, or dropped.                                                   *)
(***************************************************************************)
C18_OnlyFirstSignalActedUpon ==
  /\ shutdownCalls <= 1
  /\ exitChan <= 1
  /\ shutdownCalls = 1 => pcSig \in {"polling", "returned", "done"}
  /\ (Running /\ notified /\ nSignals < MaxSignals) => ENABLED signal_Notified

\* two signals: one shutdown, which has completed, and the second signal
\* still in the buffer
C18_Witness ==
  /\ nSignals >= 2
  /\ shutdownCalls = 1 /\ pcSig = "done"
  /\ exitChan = 1

(***************************************************************************)
(* Vocabulary of C19.                                                      *)
(***************************************************************************)
\* srv.ListenAndServe returned an error other than http.ErrServerClosed
ServeFailed == srvErr # "" /\ srvErr # "http: Server closed"

(***************************************************************************)
(* C19.  When the listener cannot be bound, or the serve loop returns an   *)
(* error other than "server closed", down is never closed and the process  *)
(* never exits with status 0: the one step left to the serving goroutine   *)
(* is the fatal exit.  down is closed only when srv.ListenAndServe         *)
(* returned no error or "server closed".                                   *)
(***************************************************************************)
C19_ServeFailureIsFatal ==
  /\ ServeFailed =>
       /\ ~down
       /\ pcSrv = "returned"
       /\ procExit # "exit0"
       /\ Running => (ENABLED srv_Fatal /\ ~ENABLED srv_CloseDown)
  /\ down => (pcSrv = "done" /\ srvErr \in {"", "http: Server closed"})

\* the bind failed and the process is gone with status 1, down not closed
C19_Witness ==
  /\ srvErr = "listen error"
  /\ procExit = "exit1" /\ ~down
  /\ pcSig \in {"recv", "done"}

\* the accept loop failed, likewise
C19_WitnessAccept ==
  /\ srvErr = "accept error"
  /\ procExit = "exit1" /\ ~down
  /\ pcSig \in {"recv", "done"}

(***************************************************************************)
(* Vocabulary of C20.                                                      *)
(***************************************************************************)
\* a termination signal is in the buffer of exit, or was received from it
SignalOnExit == exitChan > 0 \/ pcSig \notin {"unborn", "recv"}

\* the process has ended: main returned, a log.Fatalf, or a signal's default
Terminated == procExit # "running"

(***************************************************************************)
(* C20.  Under fair scheduling, once a termination signal has been sent on *)
(* the exit channel the process eventually ends, by main returning after   *)
(* down was closed or by a fatal exit: main does not wait on down for      *)
(* ever, also when the signal is received before the serve loop started.   *)
(***************************************************************************)
C20_SignalLeadsToTermination == SignalOnExit ~> Terminated

\* the process ended by main returning, after a signal and a shutdown
C20_Witness ==
  /\ pcSig \notin {"unborn", "recv"} /\ shutdownCalls = 1
  /\ down /\ pcMain = "exited" /\ procExit = "exit0"

\* the signal was received, and Shutdown started, before srv.ListenAndServe
C20_WitnessEarlySignal ==
  /\ pcSig = "polling" /\ inShutdown
  /\ pcSrv = "start" /\ Running

(***************************************************************************)
(* With C19: under fair scheduling a failure of srv.ListenAndServe leads   *)
(* to the end of the process with a status other than 0.                   *)
(***************************************************************************)
C19_ServeFailureLeadsToAbort == ServeFailed ~> (procExit \in {"exit1", "killed"})

====
